---- MODULE Spec2Model ----
(***************************************************************************)
(* Streaming denoiser session of app/src/main/cpp/native-lib.cpp: session  *)
(* creation, the two feed entry points, flush, the drain loop of           *)
(* audx_process_stream and the result construction of create_jni_result.   *)
(*                                                                         *)
(* One session is modelled.  A call is a sequence of steps: the entry      *)
(* point appends to input_buffer and enters the drain loop (pc = "drain"), *)
(* every loop iteration is one step, and the last step leaves the loop,    *)
(* builds the result and returns (pc = "idle").  While a call is running   *)
(* no other entry point is enabled (calls on a session are serialized).    *)
(*                                                                         *)
(* Samples fed by the caller are the ramp 1, 2, 3, ...: the k-th sample    *)
(* ever fed has value k, so every sample of a frame names the place of the *)
(* input it came from, and 0 is only ever silence padding.                 *)
(*                                                                         *)
(* Where two sessions are followed (SpecTwo), the variables describe the   *)
(* session the caller's handle designates (current) and the record other   *)
(* holds the second session; the second session is fed the ramp negated,   *)
(* -1, -2, -3, ..., so that every sample names its session as well.        *)
(***************************************************************************)
EXTENDS Integers, Sequences, FiniteSets, TLC

\* ------------------------------------------------------------ constants

AUDX_DEFAULT_FRAME_SIZE == 480

AUDX_DEFAULT_SAMPLE_RATE == 48000

\* ---------------------------------------------------------------- bounds

\* Calls (feed, direct-buffer feed, flush, getStats, cleanStats) made on the
\* sessions.
MaxCalls == 3

\* Frames the drain loop may process over the life of the session.
MaxFrames == 3

\* Input sample rates passed to createNative.
InputRates == {50, 350, 22050, 48000}

\* Lengths of the arrays passed to processNative.
ChunkLens == {0, 1, 479, 480}

\* Rates and array lengths of the specifications that follow a session
\* through its life and through its statistics: one rate that resamples (7
\* samples are two of its frames of 3) and the engine's own.
SmallRates == {350, 48000}

SmallChunks == {0, 1, 7}

\* Array lengths fed where two sessions are followed: one frame at 350 Hz.
TwoChunks == {3}

\* <<position, limit>> (bytes) of the direct buffers passed to
\* processNativeByteBuffer.
BufferWindows == {<<0, 0>>, <<4, 2>>, <<2, 8>>}

\* The direct buffers where the two feed entry points are compared: empty,
\* three samples from byte 0, from byte 2 and from byte 1.
DirectWindows == {<<0, 0>>, <<0, 6>>, <<2, 8>>, <<1, 7>>}

\* What the two resamplers may report for one frame: <<the count the upsampler
\* produced, the samples by which the downsampler's output falls short of one
\* input frame, the input samples the upsampler left unconsumed>>.
ResamplerCounts == {<<480, 0, 0>>, <<477, 1, 1>>}

\* Outcomes of building the result object.
JniOutcomes == {"ok", "array_fail", "object_fail"}

\* What the collaborators of one frame may return: success, or an error of the
\* upsampler, of the engine or of the downsampler.
FrameStatuses == {"ok", "upsampler_fail", "engine_fail", "downsampler_fail"}

\* Outcomes of session creation.
CreateOutcomes == {"ok", "denoiser_fail", "resampler_fail", "jni_fail"}

\* What createNative found missing when a resampler could not be created.
ResamplerFailures == {"upsampler", "downsampler", "both"}

\* The lookup of createNative that failed, in the order they are made.
JniLookups == {"stream_class", "stream_ctor", "stats_class", "stats_ctor"}

\* The entry points that take a session handle.
EntryPoints == {"processNative", "processNativeByteBuffer", "flushNative",
                "getStatsNative", "cleanStatsNative", "destroyNative"}

\* What a read through a dangling handle may do.
DanglingOutcomes == {"crash", "reads_freed"}

VARIABLES
    created,             \* "none" | "live" | "failed" | "destroyed": the
                         \* session createNative made, if any
    handle,              \* the jlong createNative returned (1: the address
                         \* of the NativeHandle), 0 before
    heap,                \* every resource createNative acquires:
                         \* "none" | "live" | "freed" | "twice" (freed twice)
    uaf,                 \* an entry point read or wrote released memory
    null_ret,            \* what the last call with a null handle returned
    snapshot,            \* what the last getStatsNative returned
    \* the library of audx/src/main/cpp/audx.cpp:
    audx_st,             \* "none" | "live" | "failed" | "freed": the AudxState
    audx_ptr,            \* the jlong denoiseCreateJNI returned, 0 before
    audx_bad,            \* a pointer that designates no AudxState was used
    input_rate,          \* inputSampleRate given to createNative
    needs_resampling,    \* ResamplerContext::needs_resampling
    input_frame_samples, \* ResamplerContext::input_frame_samples
    output_frame_samples,\* ResamplerContext::output_frame_samples
    input_buffer,        \* ResamplerContext::input_buffer
    output_buffer,       \* ResamplerContext::output_buffer
    upsampled_buffer,    \* ResamplerContext::upsampled_buffer
    last_vad_prob,       \* ResamplerContext::last_vad_prob (percent)
    is_speech,           \* ResamplerContext::is_speech
    pc,                  \* "idle" | "drain": position of the running call
    op,                  \* entry point of the running call, "none" if idle
    \* history of the run, read by the properties only
    fed,                 \* samples fed so far (the ramp's last value)
    frames,              \* frames taken by the drain loop, each with the
                         \* entry point that took it, whether that call is a
                         \* flush right after a flush, and flushFed then
    calls,               \* calls made on the session so far
    afterFlush,          \* the last call that returned was a flush
    second,              \* the running call is a flush right after a flush
    flushFed,            \* value of fed at the last flush, -1 before any
    \* of the running call, reset when it returns:
    iters,               \* iterations of the drain loop
    engine_in,           \* what the last denoiser_process call was given
    up_n,                \* samples the upsampler produced for the last frame
    up_raw,              \* upsampled_buffer as the upsampler left it
    failed,              \* some call returned nullptr
    delivered,           \* samples returned to the caller so far
    chunk,               \* samples the running call was given to feed (0
                         \* also after a direct-buffer feed that returned at
                         \* once for its empty window), -1 otherwise
    frame_error,         \* a collaborator reported an error on a frame of
                         \* the running call
    residue,             \* samples input_buffer held when the running flush
                         \* was called, -1 if no flush is running
    in_len,              \* in_len as the upsampler left it (the input
                         \* samples it consumed), of each frame the running
                         \* call resampled
    byteBuffer,          \* <<position, limit>> (bytes) of the direct buffer
                         \* the running or the last call was given, as the
                         \* call has left them; <<>> if it was given none
    reset_at,            \* Len(frames) at the last cleanStatsNative
    \* the engine instance (struct Denoiser), statistics fields:
    stats,
    \* a second session, each with its own NativeHandle, context and engine:
    current,             \* 1 | 2: the session the variables above describe
    other                \* the other session, every variable above of it

vars == <<created, handle, heap, uaf, null_ret, snapshot, audx_st, audx_ptr,
          audx_bad, input_rate, needs_resampling, input_frame_samples,
          output_frame_samples, input_buffer, output_buffer, upsampled_buffer,
          last_vad_prob, is_speech, pc, op, fed, frames, calls, afterFlush,
          second, flushFed, iters, engine_in, up_n, up_raw, failed, delivered,
          chunk, frame_error, residue, in_len, byteBuffer, reset_at, stats,
          current, other>>

session == <<needs_resampling, input_frame_samples, output_frame_samples>>

audx == <<audx_st, audx_ptr, audx_bad>>

lifecycle == <<handle, heap, uaf, null_ret, snapshot, audx>>

history == <<fed, frames, calls, afterFlush, second, flushFed, iters,
             engine_in, up_n, up_raw, failed, delivered, chunk, frame_error,
             residue, in_len, byteBuffer>>

\* ------------------------------------------------------------- helpers

Zeros(n) == [i \in 1..n |-> 0]

Ramp(from, n) == [i \in 1..n |-> from + i]

AllZero(s) == \A i \in 1..Len(s) : s[i] = 0

\* The n samples the caller of session sid feeds after the first from.
Samples(sid, from, n) ==
    IF sid = 1 THEN Ramp(from, n) ELSE [i \in 1..n |-> -(from + i)]

\* (int) of a double quotient: truncation toward zero.
TruncDiv(num, den) ==
    IF num >= 0 THEN num \div den ELSE -((-num) \div den)

\* ------------------------------------------------------- session factory

\* (int) ((double) AUDX_DEFAULT_FRAME_SIZE * (double) inputSampleRate /
\*        (double) AUDX_DEFAULT_SAMPLE_RATE)
InputFrameSamples(rate) ==
    IF rate # AUDX_DEFAULT_SAMPLE_RATE
    THEN TruncDiv(AUDX_DEFAULT_FRAME_SIZE * rate, AUDX_DEFAULT_SAMPLE_RATE)
    ELSE AUDX_DEFAULT_FRAME_SIZE

\* Mutant of CleanStats: the counts and sums are zeroed, minimum and maximum
\* are zeroed with them.
CleanStatsAllZero(d) ==
    [d EXCEPT !.frames_processed = 0,
              !.speech_frames = 0,
              !.total_vad_score = 0,
              !.min_vad_score = 0,
              !.max_vad_score = 0,
              !.total_processing_time = 0,
              !.last_frame_time = 0]

\* cleanStatsNative: the statistics fields of struct Denoiser as the reset
\* leaves them.  Probabilities are in percent: 1.0f is 100.
CleanStats(d) ==
    [d EXCEPT !.frames_processed = 0,
              !.speech_frames = 0,
              !.total_vad_score = 0,
              !.min_vad_score = 100,
              !.max_vad_score = 0,
              !.total_processing_time = 0,
              !.last_frame_time = 0]

\* new Denoiser(): the fields are zero until denoiser_create.
NoStats ==
    [frames_processed |-> 0, speech_frames |-> 0, total_vad_score |-> 0,
     min_vad_score |-> 0, max_vad_score |-> 0, total_processing_time |-> 0,
     last_frame_time |-> 0]

\* denoiser_create: a new engine instance starts with its statistics in the
\* reset state.
DenoiserCreate ==
    [frames_processed |-> 0, speech_frames |-> 0, total_vad_score |-> 0,
     min_vad_score |-> 100, max_vad_score |-> 0, total_processing_time |-> 0,
     last_frame_time |-> 0]

\* The resources a session is made of.
Resources == {"config", "denoiser", "engine", "resampler_ctx", "upsampler",
              "downsampler", "jni_cache", "stream_class", "stats_class",
              "handle"}

NoHeap == [r \in Resources |-> "none"]

\* new, denoiser_create, audx_resample_create, NewGlobalRef.
Acquire(h, rs) == [r \in Resources |-> IF r \in rs THEN "live" ELSE h[r]]

\* delete, denoiser_destroy, audx_resample_destroy, DeleteGlobalRef.  Releasing
\* what was never acquired (a null resampler) does nothing.
Release(h, rs) ==
    [r \in Resources |->
        IF r \notin rs THEN h[r]
        ELSE IF h[r] = "live" THEN "freed"
        ELSE IF h[r] = "freed" THEN "twice"
        ELSE h[r]]

\* A session that is not created yet: every variable of a session as Init
\* sets it.
NoSession ==
    [created |-> "none", handle |-> 0, heap |-> NoHeap, snapshot |-> "none",
     input_rate |-> 0, needs_resampling |-> FALSE, input_frame_samples |-> 0,
     output_frame_samples |-> 0, input_buffer |-> <<>>, output_buffer |-> <<>>,
     upsampled_buffer |-> <<>>, last_vad_prob |-> 0, is_speech |-> FALSE,
     pc |-> "idle", op |-> "none", fed |-> 0, frames |-> <<>>, calls |-> 0,
     afterFlush |-> FALSE, second |-> FALSE, flushFed |-> -1, iters |-> 0,
     engine_in |-> <<>>, up_n |-> 0, up_raw |-> <<>>, failed |-> FALSE,
     delivered |-> 0, chunk |-> -1, frame_error |-> FALSE, residue |-> -1,
     in_len |-> <<>>, reset_at |-> 0, stats |-> NoStats]

Init ==
    /\ created = "none"
    /\ handle = 0
    /\ heap = NoHeap
    /\ uaf = FALSE
    /\ null_ret = "none"
    /\ snapshot = "none"
    /\ audx_st = "none"
    /\ audx_ptr = 0
    /\ audx_bad = FALSE
    /\ input_rate = 0
    /\ needs_resampling = FALSE
    /\ input_frame_samples = 0
    /\ output_frame_samples = 0
    /\ input_buffer = <<>>
    /\ output_buffer = <<>>
    /\ upsampled_buffer = <<>>
    /\ last_vad_prob = 0
    /\ is_speech = FALSE
    /\ pc = "idle"
    /\ op = "none"
    /\ fed = 0
    /\ frames = <<>>
    /\ calls = 0
    /\ afterFlush = FALSE
    /\ second = FALSE
    /\ flushFed = -1
    /\ iters = 0
    /\ engine_in = <<>>
    /\ up_n = 0
    /\ up_raw = <<>>
    /\ failed = FALSE
    /\ delivered = 0
    /\ chunk = -1
    /\ frame_error = FALSE
    /\ residue = -1
    /\ in_len = <<>>
    /\ byteBuffer = <<>>
    /\ reset_at = 0
    /\ stats = NoStats
    /\ current = 1
    /\ other = NoSession

\* createNative, the engine: new DenoiserConfig, new Denoiser, denoiser_create;
\* the config is deleted either way, the Denoiser when the engine failed.
HeapEngine(h, ok) ==
    IF ok
    THEN Release(Acquire(h, {"config", "denoiser", "engine"}), {"config"})
    ELSE Release(Acquire(h, {"config", "denoiser"}), {"config", "denoiser"})

\* createNative, the context: new ResamplerContext and, when resampling, the
\* two audx_resample_create calls, of which those in missing returned null.
HeapResamplers(h, resampling, missing) ==
    Acquire(h, {"resampler_ctx"} \cup
               (IF resampling
                THEN {"upsampler", "downsampler"} \ missing ELSE {}))

\* The resamplers named by a failure.
Missing(detail) ==
    IF detail = "both" THEN {"upsampler", "downsampler"}
    ELSE IF detail \in {"upsampler", "downsampler"} THEN {detail} ELSE {}

\* The global references createNative holds when lookup fails.
RefsBefore(lookup) ==
    IF lookup = "stream_class" THEN {}
    ELSE IF lookup = "stats_ctor" THEN {"stream_class", "stats_class"}
    ELSE {"stream_class"}

\* createNative, a failed lookup: the references made so far, the cache, the
\* context and the engine are released.
HeapLookupFailed(h, lookup) ==
    Release(Acquire(h, {"jni_cache"} \cup RefsBefore(lookup)),
            {"jni_cache", "resampler_ctx", "engine", "denoiser"}
                \cup RefsBefore(lookup))

\* createNative, the last lines: the cache with both references and the
\* NativeHandle.
HeapHandle(h) ==
    Acquire(h, {"jni_cache", "stream_class", "stats_class", "handle"})

\* The heap as createNative leaves it.
HeapAfterCreate(h, rate, outcome, detail) ==
    IF outcome = "denoiser_fail" THEN HeapEngine(h, FALSE)
    ELSE IF outcome = "resampler_fail"
    THEN HeapResamplers(HeapEngine(h, TRUE), TRUE, Missing(detail))
    ELSE IF outcome = "jni_fail"
    THEN HeapLookupFailed(
             HeapResamplers(HeapEngine(h, TRUE),
                            rate # AUDX_DEFAULT_SAMPLE_RATE, {}), detail)
    ELSE HeapHandle(HeapResamplers(HeapEngine(h, TRUE),
                                   rate # AUDX_DEFAULT_SAMPLE_RATE, {}))

\* What createNative returns: the address of the NativeHandle, or 0.
CreateReturn(outcome) == IF outcome = "ok" THEN 1 ELSE 0

\* The ways an outcome of createNative can come about.
CreateDetails(outcome) ==
    IF outcome = "resampler_fail" THEN ResamplerFailures
    ELSE IF outcome = "jni_fail" THEN JniLookups
    ELSE {"none"}

\* Java_com_android_audx_AudxDenoiser_createNative.  A resampler can only
\* fail to be created when one is created, i.e. when the rates differ.
createNative(rate, outcome) ==
    /\ created = "none"
    /\ outcome = "resampler_fail" => rate # AUDX_DEFAULT_SAMPLE_RATE
    /\ input_rate' = rate
    /\ handle' = CreateReturn(outcome)
    /\ \E detail \in CreateDetails(outcome) :
          heap' = HeapAfterCreate(heap, rate, outcome, detail)
    /\ UNCHANGED <<uaf, null_ret, snapshot, audx>>
    /\ IF outcome = "ok"
       THEN /\ created' = "live"
            /\ needs_resampling' = (rate # AUDX_DEFAULT_SAMPLE_RATE)
            /\ output_frame_samples' = AUDX_DEFAULT_FRAME_SIZE
            /\ input_frame_samples' = InputFrameSamples(rate)
            /\ upsampled_buffer' = IF rate # AUDX_DEFAULT_SAMPLE_RATE
                                   THEN Zeros(AUDX_DEFAULT_FRAME_SIZE)
                                   ELSE <<>>
            /\ stats' = DenoiserCreate
       ELSE /\ created' = "failed"
            /\ UNCHANGED <<session, upsampled_buffer, stats>>
    /\ UNCHANGED <<input_buffer, output_buffer, last_vad_prob, is_speech,
                   pc, op, history>>
    /\ UNCHANGED <<reset_at, current, other>>

\* ----------------------------------------------------------- collaborators
\* The resampler and the denoising engine are external libraries; these
\* operators stand for their contracts.

\* audx_resample_process(upsampler, in, &in_len, out, &out_len): the first n
\* samples of the output buffer are overwritten (n is the produced count the
\* resampler reports, at most the capacity it was given), the rest is left as
\* it was.  A produced sample repeats the input sample at its place in time.
UpsamplerWrite(buffer, input_frame, n) ==
    [i \in 1..Len(buffer) |->
        IF i <= n
        THEN input_frame[((i - 1) * Len(input_frame)) \div Len(buffer) + 1]
        ELSE buffer[i]]

\* The produced count the upsampler reports for a frame: nothing comes out of
\* an empty input run.
UpsamplerCount(input_frame, c) ==
    IF Len(input_frame) = 0 THEN 0 ELSE c[1]

\* The consumed count the upsampler reports for a frame (in_len after the
\* call): the frame less what it left unconsumed.
UpsamplerConsumed(input_frame, c) ==
    IF Len(input_frame) - c[3] >= 0 THEN Len(input_frame) - c[3] ELSE 0

\* The downsampler's output for one denoised frame, m samples long.
DownsamplerOut(denoised, m) ==
    [j \in 1..m |-> denoised[((j - 1) * Len(denoised)) \div m + 1]]

\* The produced count the downsampler reports: about one input frame, within
\* the capacity of downsampled_buffer (2 * input_frame_samples).
DownsamplerCount(n, c) ==
    IF n - c[2] >= 0 THEN n - c[2] ELSE 0

\* denoiser_process(denoiser, in, out, &result): exactly one frame in, one
\* frame out, with the frame's VAD probability (percent) and decision.
DenoiserOut(frame) == frame

\* Silence scores low, a frame that ends in silence in between.
DenoiserVad(frame) ==
    IF AllZero(frame) THEN 10
    ELSE IF frame[Len(frame)] = 0 THEN 60 ELSE 90

DenoiserSpeech(frame) == DenoiserVad(frame) >= 50

\* denoiser_process, its side effect on the engine's statistics: one more
\* frame, one more speech frame if it is speech, the probability folded into
\* sum, minimum and maximum, one unit of processing time.
DenoiserStats(d, vad, speech) ==
    [d EXCEPT !.frames_processed = @ + 1,
              !.speech_frames = IF speech THEN @ + 1 ELSE @,
              !.total_vad_score = @ + vad,
              !.min_vad_score = IF vad < @ THEN vad ELSE @,
              !.max_vad_score = IF vad > @ THEN vad ELSE @,
              !.total_processing_time = @ + 1,
              !.last_frame_time = 1]

\* ------------------------------------------------------------ drain loop

\* Mutant of DrainCondition: the loop asks for more than one frame.
DrainConditionStrict(buffer, n) == Len(buffer) > n

\* while (ctx->input_buffer.size() >= ctx->input_frame_samples)
DrainCondition(buffer, n) == Len(buffer) >= n

\* std::vector<int16_t> input_frame(begin, begin + input_frame_samples)
TakeFrame(buffer, n) == SubSeq(buffer, 1, n)

\* Mutant of EraseFrame: the last sample of the frame stays in the buffer.
EraseFrameKeepsLast(buffer, n) ==
    SubSeq(buffer, IF n > 0 THEN n ELSE 1, Len(buffer))

\* input_buffer.erase(begin, begin + input_frame_samples)
EraseFrame(buffer, n) == SubSeq(buffer, n + 1, Len(buffer))

\* Mutant of Removed: only what the upsampler consumed is taken out.
RemovedConsumed(n, consumed) == consumed

\* The samples an iteration takes out of input_buffer: the erase is made
\* with input_frame_samples before the upsampler runs, and in_len is not read
\* after it.
Removed(n, consumed) == n

\* Mutant of PadSilence: the shortfall is not filled.
PadSilenceOmitted(buffer, out_len, frame_size) == buffer

\* if (out_len < output_frame_samples)
\*     std::fill(begin + out_len, begin + output_frame_samples, 0)
PadSilence(buffer, out_len, frame_size) ==
    IF out_len < frame_size
    THEN [i \in 1..Len(buffer) |->
            IF i > out_len /\ i <= frame_size THEN 0 ELSE buffer[i]]
    ELSE buffer

\* Mutant of DirectOutput: the last cleaned sample is left out.
DirectOutputShort(denoised, n) == SubSeq(denoised, 1, n - 1)

\* output_buffer.insert(end, denoised_buffer.begin(),
\*                      denoised_buffer.begin() + input_frame_samples)
DirectOutput(denoised, n) == SubSeq(denoised, 1, n)

\* Mutant of VadAfterFrame: the frame's probability is averaged with the one
\* before.
VadAveraged(previous, frame_result) == (previous + frame_result) \div 2

\* ctx->last_vad_prob = frame_result.vad_probability
VadAfterFrame(previous, frame_result) == frame_result

\* Mutant of FrameResult: the engine is run twice on the frame.
FrameResultTwice(input_frame, engine_frame) ==
    \E vad \in {DenoiserVad(engine_frame)},
       speech \in {DenoiserSpeech(engine_frame)} :
       /\ last_vad_prob' = VadAfterFrame(last_vad_prob, vad)
       /\ is_speech' = speech
       /\ stats' = DenoiserStats(DenoiserStats(stats, vad, speech), vad, speech)
       /\ frames' = Append(frames, [data |-> input_frame, op |-> op,
                                     second |-> second, flushFed |-> flushFed,
                                     vad |-> vad, speech |-> speech])

\* The end of an iteration: the engine has processed engine_frame (one call of
\* denoiser_process), made of input_frame; its result overwrites the
\* session's last VAD values.
FrameResult(input_frame, engine_frame) ==
    \E vad \in {DenoiserVad(engine_frame)},
       speech \in {DenoiserSpeech(engine_frame)} :
       /\ last_vad_prob' = VadAfterFrame(last_vad_prob, vad)
       /\ is_speech' = speech
       /\ stats' = DenoiserStats(stats, vad, speech)
       /\ frames' = Append(frames, [data |-> input_frame, op |-> op,
                                     second |-> second, flushFed |-> flushFed,
                                     vad |-> vad, speech |-> speech])

\* One iteration of the loop of audx_process_stream.  The loop of a session
\* whose frames are empty never ends; the model follows it for MaxFrames + 1
\* iterations.  (Each intermediate buffer is bound by \E over a singleton, so
\* that it is computed once.)  The values the collaborators return are not
\* read by the loop: status is what they returned for this frame.
audx_process_stream ==
    /\ pc = "drain"
    /\ DrainCondition(input_buffer, input_frame_samples)
    /\ Len(frames) <= MaxFrames
    /\ \E input_frame \in {TakeFrame(input_buffer, input_frame_samples)} :
       /\ iters' = iters + 1
       /\ IF needs_resampling
          THEN \E c \in ResamplerCounts :
               \E n \in {UpsamplerCount(input_frame, c)},
                  k \in {UpsamplerConsumed(input_frame, c)},
                  m \in {DownsamplerCount(input_frame_samples, c)} :
               \E written \in {UpsamplerWrite(upsampled_buffer, input_frame, n)} :
               \E padded \in {PadSilence(written, n, output_frame_samples)} :
               \E denoised \in {DenoiserOut(padded)} :
                  /\ input_buffer' =
                         EraseFrame(input_buffer,
                                    Removed(input_frame_samples, k))
                  /\ in_len' = Append(in_len, k)
                  /\ upsampled_buffer' = padded
                  /\ up_raw' = written
                  /\ up_n' = n
                  /\ engine_in' = padded
                  /\ output_buffer' =
                         output_buffer \o DownsamplerOut(denoised, m)
                  /\ FrameResult(input_frame, padded)
          ELSE \E denoised \in {DenoiserOut(input_frame)} :
               /\ input_buffer' = EraseFrame(input_buffer, input_frame_samples)
               /\ engine_in' = input_frame
               /\ output_buffer' =
                      output_buffer \o DirectOutput(denoised, input_frame_samples)
               /\ FrameResult(input_frame, input_frame)
               /\ UNCHANGED <<upsampled_buffer, up_raw, up_n, in_len>>
    /\ \E status \in FrameStatuses :
          /\ status \in {"upsampler_fail", "downsampler_fail"}
                 => needs_resampling
          /\ frame_error' = (frame_error \/ status # "ok")
    /\ UNCHANGED <<created, lifecycle, input_rate, session, pc, op, fed, calls,
                   afterFlush, second, flushFed, failed, delivered, chunk,
                   residue, byteBuffer>>
    /\ UNCHANGED <<reset_at, current, other>>

\* ---------------------------------------------------------- result object

\* create_jni_result: what is left in output_buffer.  NewShortArray failing
\* returns before the clear; every other path clears.
OutputAfterResult(outcome, buffer) ==
    IF outcome = "array_fail" THEN buffer ELSE <<>>

\* create_jni_result: the object returned: nullptr, or a result holding the
\* contents of output_buffer.
ResultObject(outcome, buffer) ==
    IF outcome = "ok"
    THEN [null |-> FALSE, audio |-> buffer,
          vad |-> last_vad_prob, speech |-> is_speech]
    ELSE [null |-> TRUE, audio |-> <<>>, vad |-> 0, speech |-> FALSE]

\* create_jni_result(env, handle), with the outcome of the JNI calls in it.
create_jni_result(outcome) ==
    /\ output_buffer' = OutputAfterResult(outcome, output_buffer)
    /\ failed' = (failed \/ ResultObject(outcome, output_buffer).null)
    /\ delivered' = delivered + Len(ResultObject(outcome, output_buffer).audio)

\* ------------------------------------------------------------ entry points

\* The bound on frames, as a guard of the calls: a call is made only if the
\* frames it completes fit MaxFrames.  (A session with empty frames completes
\* none.)
FitsFrames(n) ==
    \/ input_frame_samples <= 0
    \/ Len(input_buffer) + n < (MaxFrames - Len(frames) + 1) * input_frame_samples

CanCall ==
    /\ created = "live"
    /\ pc = "idle"
    /\ calls + other.calls < MaxCalls

\* Java_com_android_audx_AudxDenoiser_processNative, up to the drain loop.
processNative(input_len) ==
    /\ CanCall
    /\ FitsFrames(input_len)
    /\ input_buffer' = input_buffer \o Samples(current, fed, input_len)
    /\ fed' = fed + input_len
    /\ pc' = "drain"
    /\ op' = "feed"
    /\ calls' = calls + 1
    /\ second' = FALSE
    /\ chunk' = input_len
    /\ UNCHANGED <<created, lifecycle, input_rate, session, output_buffer,
                   upsampled_buffer,
                   last_vad_prob, is_speech, frames, afterFlush, flushFed,
                   iters, engine_in, up_n, up_raw, failed, delivered,
                   frame_error, stats>>
    /\ byteBuffer' = <<>>
    /\ UNCHANGED <<residue, in_len>>
    /\ UNCHANGED <<reset_at, current, other>>

\* The two bytes of a 16-bit sample in the memory of a direct buffer, low
\* byte first.
SampleBytes(v) == <<(v % 65536) % 256, (v % 65536) \div 256>>

\* The int16_t read from two bytes of memory.
BytesSample(lo, hi) ==
    IF lo + 256 * hi >= 32768 THEN lo + 256 * hi - 65536 ELSE lo + 256 * hi

\* The memory of a direct buffer that holds samples from its position on, up
\* to its limit: position bytes the caller has done with (zero), then the
\* samples.
BufferBytes(samples, position) ==
    [b \in 1..(position + 2 * Len(samples)) |->
        IF b <= position THEN 0
        ELSE SampleBytes(samples[(b - position + 1) \div 2])
                 [2 - ((b - position) % 2)]]

\* sample_ptr = static_cast<int16_t *>(buffer_ptr) + position / 2, and the
\* num_samples samples inserted from there: the j-th is read at byte
\* 2 * (position / 2 + j - 1) of the memory.
ReadSamples(bytes, position, num_samples) ==
    [j \in 1..num_samples |->
        BytesSample(bytes[2 * ((position \div 2) + j - 1) + 1],
                    bytes[2 * ((position \div 2) + j - 1) + 2])]

\* env->CallObjectMethod(byteBuffer, positionSetMethod, limit)
PositionSet(window) == <<window[2], window[2]>>

\* remaining_bytes / 2: bytes to samples.
NumSamples(remaining_bytes) == remaining_bytes \div 2

\* Java_com_android_audx_AudxDenoiser_processNativeByteBuffer, up to the drain
\* loop, with its early returns: no direct address (nullptr), and an empty
\* window (the result is built at once, the loop is not entered).
processNativeByteBuffer(position, limit, direct) ==
    /\ CanCall
    /\ calls' = calls + 1
    /\ second' = FALSE
    /\ IF ~direct
       THEN /\ failed' = TRUE
            /\ afterFlush' = FALSE
            /\ chunk' = -1
            /\ UNCHANGED <<input_buffer, output_buffer, fed, pc, op, delivered>>
       ELSE IF limit - position <= 0
       THEN /\ \E outcome \in JniOutcomes : create_jni_result(outcome)
            /\ afterFlush' = FALSE
            /\ chunk' = 0
            /\ UNCHANGED <<input_buffer, fed, pc, op>>
       ELSE /\ FitsFrames(NumSamples(limit - position))
            /\ input_buffer' =
                   input_buffer
                       \o ReadSamples(
                              BufferBytes(
                                  Samples(current, fed,
                                          NumSamples(limit - position)),
                                  position),
                              position, NumSamples(limit - position))
            /\ fed' = fed + NumSamples(limit - position)
            /\ chunk' = NumSamples(limit - position)
            /\ pc' = "drain"
            /\ op' = "feedbb"
            /\ UNCHANGED <<output_buffer, afterFlush, failed, delivered>>
    /\ UNCHANGED <<created, lifecycle, input_rate, session, upsampled_buffer,
                   last_vad_prob, is_speech, frames, flushFed, iters,
                   engine_in, up_n, up_raw, frame_error, stats>>
    /\ byteBuffer' = IF direct THEN <<position, limit>> ELSE <<>>
    /\ UNCHANGED <<residue, in_len>>
    /\ UNCHANGED <<reset_at, current, other>>

\* std::vector<int16_t> padding(ctx->input_frame_samples, 0)
FlushPadding(n) == Zeros(n)

\* Java_com_android_audx_AudxDenoiser_flushNative, up to the drain loop.
flushNative ==
    /\ CanCall
    /\ Len(frames) < MaxFrames
    /\ input_buffer' = input_buffer \o FlushPadding(input_frame_samples)
    /\ pc' = "drain"
    /\ op' = "flush"
    /\ calls' = calls + 1
    /\ second' = afterFlush
    /\ flushFed' = fed
    /\ chunk' = -1
    /\ residue' = Len(input_buffer)
    /\ byteBuffer' = <<>>
    /\ UNCHANGED in_len
    /\ UNCHANGED <<created, lifecycle, input_rate, session, output_buffer,
                   upsampled_buffer,
                   last_vad_prob, is_speech, fed, frames, afterFlush, iters,
                   engine_in, up_n, up_raw, failed, delivered, frame_error,
                   stats>>
    /\ UNCHANGED <<reset_at, current, other>>

\* Mutant of ClearAfterFlush: the leftover padding is kept.
ClearAfterFlushOmitted(buffer) == buffer

\* flushNative: ctx->input_buffer.clear() after the result is built.
ClearAfterFlush(buffer) == <<>>

\* The end of a call: the drain loop's condition is false, the result is
\* built by create_jni_result, flushNative clears input_buffer, and the call
\* returns.
returnResult(outcome) ==
    /\ pc = "drain"
    /\ ~DrainCondition(input_buffer, input_frame_samples)
    /\ create_jni_result(outcome)
    /\ input_buffer' = IF op = "flush"
                       THEN ClearAfterFlush(input_buffer) ELSE input_buffer
    /\ pc' = "idle"
    /\ op' = "none"
    /\ afterFlush' = (op = "flush")
    /\ second' = FALSE
    /\ iters' = 0
    /\ engine_in' = <<>>
    /\ up_n' = 0
    /\ up_raw' = <<>>
    /\ frame_error' = FALSE
    /\ chunk' = -1
    /\ residue' = -1
    /\ in_len' = <<>>
    /\ byteBuffer' = IF op = "feedbb"
                     THEN PositionSet(byteBuffer) ELSE byteBuffer
    /\ UNCHANGED <<created, lifecycle, input_rate, session, upsampled_buffer,
                   last_vad_prob, is_speech, fed, frames, calls, flushFed,
                   stats>>
    /\ UNCHANGED <<reset_at, current, other>>

\* ------------------------------------------------------------- statistics

\* Outcomes of getStatsNative: the result, get_denoiser_stats failing, NewObject
\* failing.
StatsOutcomes == {"ok", "stats_fail", "object_fail"}

\* get_denoiser_stats: the snapshot of the engine's statistics.
GetDenoiserStats(d) ==
    [frame_processed |-> d.frames_processed,
     speech_frames |-> d.speech_frames,
     vscores_avg |-> IF d.frames_processed = 0 THEN 0
                     ELSE d.total_vad_score \div d.frames_processed,
     vscores_min |-> d.min_vad_score,
     vscores_max |-> d.max_vad_score,
     ptime_total |-> d.total_processing_time,
     ptime_last |-> d.last_frame_time]

\* Java_com_android_audx_AudxDenoiser_getStatsNative on a live session.
getStatsNative(outcome) ==
    /\ CanCall
    /\ calls' = calls + 1
    /\ snapshot' = IF outcome = "ok" THEN GetDenoiserStats(stats) ELSE "nullptr"
    /\ UNCHANGED <<created, handle, heap, uaf, null_ret, audx, input_rate,
                   session, input_buffer, output_buffer, upsampled_buffer,
                   last_vad_prob, is_speech, pc, op, fed, frames, afterFlush,
                   second, flushFed, iters, engine_in, up_n, up_raw, failed,
                   delivered, chunk, frame_error, stats>>
    /\ UNCHANGED <<residue, in_len, byteBuffer>>
    /\ UNCHANGED <<reset_at, current, other>>

\* Java_com_android_audx_AudxDenoiser_cleanStatsNative on a live session.
cleanStatsNative ==
    /\ CanCall
    /\ calls' = calls + 1
    /\ stats' = CleanStats(stats)
    /\ UNCHANGED <<created, lifecycle, input_rate, session, input_buffer,
                   output_buffer, upsampled_buffer, last_vad_prob, is_speech,
                   pc, op, fed, frames, afterFlush, second, flushFed, iters,
                   engine_in, up_n, up_raw, failed, delivered, chunk,
                   frame_error>>
    /\ reset_at' = Len(frames)
    /\ UNCHANGED <<residue, in_len, byteBuffer, current, other>>

\* ------------------------------------------------------------ two sessions

\* The session the variables describe, as a record.
Context ==
    [created |-> created, handle |-> handle, heap |-> heap,
     snapshot |-> snapshot, input_rate |-> input_rate,
     needs_resampling |-> needs_resampling,
     input_frame_samples |-> input_frame_samples,
     output_frame_samples |-> output_frame_samples,
     input_buffer |-> input_buffer, output_buffer |-> output_buffer,
     upsampled_buffer |-> upsampled_buffer, last_vad_prob |-> last_vad_prob,
     is_speech |-> is_speech, pc |-> pc, op |-> op, fed |-> fed,
     frames |-> frames, calls |-> calls, afterFlush |-> afterFlush,
     second |-> second, flushFed |-> flushFed, iters |-> iters,
     engine_in |-> engine_in, up_n |-> up_n, up_raw |-> up_raw,
     failed |-> failed, delivered |-> delivered, chunk |-> chunk,
     frame_error |-> frame_error, residue |-> residue, in_len |-> in_len,
     reset_at |-> reset_at, stats |-> stats]

\* Mutant of OwnBuffer: one buffer serves every session.
SharedBuffer(own, last_used) == last_used

\* ResamplerContext::input_buffer and output_buffer are members of the
\* context, and every session has a context of its own (new
\* ResamplerContext()): the buffer a call works on is the one of its handle's
\* context, not the one the call before worked on.
OwnBuffer(own, last_used) == own

\* The caller turns to the other session: its next call passes the other
\* handle.  Each entry point reaches all its state through the handle it is
\* given.
switchSession ==
    /\ pc = "idle"
    /\ current' = 3 - current
    /\ other' = Context
    /\ created' = other.created
    /\ handle' = other.handle
    /\ heap' = other.heap
    /\ snapshot' = other.snapshot
    /\ input_rate' = other.input_rate
    /\ needs_resampling' = other.needs_resampling
    /\ input_frame_samples' = other.input_frame_samples
    /\ output_frame_samples' = other.output_frame_samples
    /\ input_buffer' = OwnBuffer(other.input_buffer, input_buffer)
    /\ output_buffer' = OwnBuffer(other.output_buffer, output_buffer)
    /\ upsampled_buffer' = other.upsampled_buffer
    /\ last_vad_prob' = other.last_vad_prob
    /\ is_speech' = other.is_speech
    /\ pc' = other.pc
    /\ op' = other.op
    /\ fed' = other.fed
    /\ frames' = other.frames
    /\ calls' = other.calls
    /\ afterFlush' = other.afterFlush
    /\ second' = other.second
    /\ flushFed' = other.flushFed
    /\ iters' = other.iters
    /\ engine_in' = other.engine_in
    /\ up_n' = other.up_n
    /\ up_raw' = other.up_raw
    /\ failed' = other.failed
    /\ delivered' = other.delivered
    /\ chunk' = other.chunk
    /\ frame_error' = other.frame_error
    /\ residue' = other.residue
    /\ in_len' = other.in_len
    /\ reset_at' = other.reset_at
    /\ stats' = other.stats
    /\ UNCHANGED <<uaf, null_ret, audx, byteBuffer>>

\* ------------------------------------------------------------- end of life

\* What destroyNative releases.
Destroyed == {"engine", "denoiser", "upsampler", "downsampler",
              "resampler_ctx", "stream_class", "stats_class", "jni_cache",
              "handle"}

\* Java_com_android_audx_AudxDenoiser_destroyNative on a live session.  The
\* caller's copy of the handle is beyond the reach of the function and keeps
\* its value; the session's memory is gone, and with it what the model knew
\* of the session.
destroyNative ==
    /\ created = "live"
    /\ pc = "idle"
    /\ created' = "destroyed"
    /\ heap' = Release(heap, Destroyed)
    /\ needs_resampling' = FALSE
    /\ input_frame_samples' = 0
    /\ output_frame_samples' = 0
    /\ input_buffer' = <<>>
    /\ output_buffer' = <<>>
    /\ upsampled_buffer' = <<>>
    /\ last_vad_prob' = 0
    /\ is_speech' = FALSE
    /\ stats' = NoStats
    /\ fed' = 0
    /\ frames' = <<>>
    /\ calls' = 0
    /\ afterFlush' = FALSE
    /\ flushFed' = -1
    /\ failed' = FALSE
    /\ delivered' = 0
    /\ chunk' = -1
    /\ UNCHANGED <<handle, uaf, null_ret, snapshot, audx, input_rate, pc, op,
                   second, iters, engine_in, up_n, up_raw, frame_error>>
    /\ reset_at' = 0
    /\ UNCHANGED <<residue, in_len, byteBuffer, current, other>>

\* if (!native_handle ...) return: what an entry point returns for handle 0.
NullReturn(fn) ==
    IF fn \in {"destroyNative", "cleanStatsNative"} THEN "void" ELSE "nullptr"

\* An entry point called with handle 0 (the handle of a failed creation, or
\* none): the null check returns at once.
nullHandle(fn) ==
    /\ pc = "idle"
    /\ null_ret' = NullReturn(fn)
    /\ UNCHANGED <<created, handle, heap, uaf, snapshot, audx, input_rate,
                   session, input_buffer, output_buffer, upsampled_buffer,
                   last_vad_prob, is_speech, pc, op, history, stats>>
    /\ UNCHANGED <<reset_at, current, other>>

\* An entry point called with the handle of the destroyed session.  The handle
\* is not null, so the null check passes and the function reads the released
\* NativeHandle: the process crashes, or the read finds the old pointers and
\* the function goes on with released memory (destroyNative releases it all
\* again).
danglingHandle(fn, outcome) ==
    /\ created = "destroyed"
    /\ pc = "idle"
    /\ handle # 0
    /\ IF outcome = "crash"
       THEN /\ pc' = "crashed"
            /\ UNCHANGED <<heap, uaf>>
       ELSE /\ uaf' = TRUE
            /\ heap' = IF fn = "destroyNative"
                       THEN Release(heap, Destroyed) ELSE heap
            /\ pc' = pc
    /\ UNCHANGED <<created, handle, null_ret, snapshot, audx, input_rate,
                   session, input_buffer, output_buffer, upsampled_buffer,
                   last_vad_prob, is_speech, op, history, stats>>
    /\ UNCHANGED <<reset_at, current, other>>

\* ------------------------------------------------------- audx.cpp bindings

\* Java_com_audx_android_Audx_denoiseCreateJNI: what it returns.
AudxCreateReturn(ok) == IF ok THEN 1 ELSE -1

\* if (!st): the null check of denoiseProcessJNI and denoiseDestroyJNI.
AudxIsNull(ptr) == ptr = 0

\* Java_com_audx_android_Audx_denoiseCreateJNI; ok: audx_create returned a
\* state.
denoiseCreateJNI(ok) ==
    /\ audx_st = "none"
    /\ audx_st' = IF ok THEN "live" ELSE "failed"
    /\ audx_ptr' = AudxCreateReturn(ok)
    /\ UNCHANGED <<created, handle, heap, uaf, null_ret, snapshot, audx_bad,
                   input_rate, session, input_buffer, output_buffer,
                   upsampled_buffer, last_vad_prob, is_speech, pc, op, history,
                   stats>>
    /\ UNCHANGED <<reset_at, current, other>>

\* Java_com_audx_android_Audx_denoiseProcessJNI(ptr, in, out): past the null
\* check audx_process_int reads the state ptr points to.
denoiseProcessJNI(ptr) ==
    /\ audx_st # "none"
    /\ audx_bad' = (audx_bad \/ (~AudxIsNull(ptr) /\ audx_st # "live"))
    /\ UNCHANGED <<created, handle, heap, uaf, null_ret, snapshot, audx_st,
                   audx_ptr, input_rate, session, input_buffer, output_buffer,
                   upsampled_buffer, last_vad_prob, is_speech, pc, op, history,
                   stats>>
    /\ UNCHANGED <<reset_at, current, other>>

\* Java_com_audx_android_Audx_denoiseDestroyJNI(ptr): past the null check
\* audx_destroy releases the state ptr points to.
denoiseDestroyJNI(ptr) ==
    /\ audx_st # "none"
    /\ audx_bad' = (audx_bad \/ (~AudxIsNull(ptr) /\ audx_st # "live"))
    /\ audx_st' = IF ~AudxIsNull(ptr) /\ audx_st = "live"
                  THEN "freed" ELSE audx_st
    /\ UNCHANGED <<created, handle, heap, uaf, null_ret, snapshot, audx_ptr,
                   input_rate, session, input_buffer, output_buffer,
                   upsampled_buffer, last_vad_prob, is_speech, pc, op, history,
                   stats>>
    /\ UNCHANGED <<reset_at, current, other>>

\* ------------------------------------------------------------ specification

Next ==
    \/ \E rate \in InputRates, outcome \in CreateOutcomes :
          createNative(rate, outcome)
    \/ \E input_len \in ChunkLens : processNative(input_len)
    \/ \E w \in BufferWindows, direct \in BOOLEAN :
          processNativeByteBuffer(w[1], w[2], direct)
    \/ flushNative
    \/ audx_process_stream
    \/ \E outcome \in JniOutcomes : returnResult(outcome)

Spec == Init /\ [][Next]_vars

\* The life of a session and of its handle: creation with every failure,
\* feeds and flushes, statistics, destruction, and calls with a null handle
\* and with the handle of the destroyed session; next to it the bindings of
\* audx.cpp.
NextLife ==
    \/ \E rate \in SmallRates, outcome \in CreateOutcomes :
          createNative(rate, outcome)
    \/ \E input_len \in SmallChunks : processNative(input_len)
    \/ flushNative
    \/ audx_process_stream
    \/ \E outcome \in JniOutcomes : returnResult(outcome)
    \/ destroyNative
    \/ \E fn \in EntryPoints : nullHandle(fn)
    \/ \E fn \in EntryPoints, outcome \in DanglingOutcomes :
          danglingHandle(fn, outcome)
    \/ \E ok \in BOOLEAN : denoiseCreateJNI(ok)
    \/ \E ptr \in {0, audx_ptr} : denoiseProcessJNI(ptr)
    \/ \E ptr \in {0, audx_ptr} : denoiseDestroyJNI(ptr)

SpecLife == Init /\ [][NextLife]_vars

\* The statistics of a session: feeds and flushes with getStatsNative and
\* cleanStatsNative between them.
NextStats ==
    \/ \E rate \in SmallRates : createNative(rate, "ok")
    \/ \E input_len \in SmallChunks : processNative(input_len)
    \/ flushNative
    \/ audx_process_stream
    \/ returnResult("ok")
    \/ \E outcome \in StatsOutcomes : getStatsNative(outcome)
    \/ cleanStatsNative

SpecStats == Init /\ [][NextStats]_vars

\* Two sessions, their calls interleaved.
NextTwo ==
    \/ \E rate \in SmallRates : createNative(rate, "ok")
    \/ \E input_len \in TwoChunks : processNative(input_len)
    \/ flushNative
    \/ audx_process_stream
    \/ returnResult("ok")
    \/ getStatsNative("ok")
    \/ cleanStatsNative
    \/ switchSession

SpecTwo == Init /\ [][NextTwo]_vars

\* The two feed entry points side by side: the array and the direct buffer,
\* on sessions of both paths.
NextFeed ==
    \/ \E rate \in SmallRates : createNative(rate, "ok")
    \/ \E input_len \in SmallChunks : processNative(input_len)
    \/ \E w \in DirectWindows : processNativeByteBuffer(w[1], w[2], TRUE)
    \/ audx_process_stream
    \/ \E outcome \in JniOutcomes : returnResult(outcome)

SpecFeed == Init /\ [][NextFeed]_vars

\* --------------------------------------------------------------- properties

Live == created = "live"

\* A call on the session has returned and none is running.
Returned == Live /\ pc = "idle" /\ calls > 0

\* The running call is about to build its result and return: output_buffer
\* holds what it returns.
AtReturn == pc = "drain" /\ ~DrainCondition(input_buffer, input_frame_samples)

FeedOps == {"feed", "feedbb"}

\* round(num / den), halves away from zero, for num >= 0.
Round(num, den) == (2 * num + den) \div (2 * den)

\* The k-th frame of a single feed of the whole input fed so far, n samples
\* a frame.
SingleFeedFrame(k, n) == SubSeq(Ramp(0, fed), (k - 1) * n + 1, k * n)

\* C1: each time a feed or flush call returns, input_buffer holds strictly
\* fewer than input_frame_samples samples.
C1_InputBelowFrame ==
    Returned => Len(input_buffer) < input_frame_samples

\* C2: framing is a function of the cumulative input alone: with no flush so
\* far, after the calls have fed T samples in whatever chunks, the frames taken
\* are the frames of a single feed of the T samples, floor(T / n) of them, the
\* k-th holding samples (k-1)n+1 .. kn.  (For n = 0 no feed returns and the
\* quotient is undefined.)
C2_FramingIgnoresChunks ==
    (Live /\ pc = "idle" /\ flushFed = -1 /\ input_frame_samples >= 1) =>
        /\ Len(frames) = fed \div input_frame_samples
        /\ \A k \in 1..Len(frames) :
              frames[k].data = SingleFeedFrame(k, input_frame_samples)

\* C2's case: a session at the engine rate whose first frame spans two chunks
\* (479 + 480 samples fed by two calls).
C2_Witness ==
    /\ Live /\ pc = "idle" /\ flushFed = -1 /\ ~needs_resampling
    /\ calls = 2 /\ fed = 959
    /\ Len(frames) = 1 /\ Len(input_buffer) = 479

\* C3: output_buffer is empty after every feed or flush call has returned,
\* whichever way the call returned.
C3_OutputEmptyAfterReturn ==
    Returned => output_buffer = <<>>

\* C4: every call terminates: each iteration of the drain loop takes at least
\* one sample out of input_buffer, so that the loop runs at most
\* (buffered samples) / input_frame_samples times.
C4_EveryIterationConsumes ==
    [][iters' = iters + 1 => Len(input_buffer') < Len(input_buffer)]_vars

\* C5: a session that creation returned as valid has input_frame_samples >= 1.
C5_FramePositive ==
    Live => input_frame_samples >= 1

\* C6: input_frame_samples is round(engineFrameSamples * inputRate /
\* engineRate), to nearest.
C6_FrameRounded ==
    Live => input_frame_samples =
                Round(AUDX_DEFAULT_FRAME_SIZE * input_rate, AUDX_DEFAULT_SAMPLE_RATE)

\* C7: at the engine rate, on a session that was never flushed and whose calls
\* all returned a result, every feed returns a multiple of engineFrameSamples
\* samples, and once k * engineFrameSamples samples have been fed, exactly
\* that many have been returned.
C7_DirectCountExact ==
    (Live /\ ~needs_resampling /\ ~failed /\ flushFed = -1) =>
        /\ AtReturn =>
              Len(ResultObject("ok", output_buffer).audio)
                  % AUDX_DEFAULT_FRAME_SIZE = 0
        /\ (pc = "idle" /\ fed % AUDX_DEFAULT_FRAME_SIZE = 0) => delivered = fed

\* C7's case: two engine frames fed in three chunks and returned.
C7_Witness ==
    /\ Live /\ ~needs_resampling /\ ~failed /\ flushFed = -1 /\ pc = "idle"
    /\ calls = 3 /\ fed = 2 * AUDX_DEFAULT_FRAME_SIZE /\ delivered = fed
    /\ Len(frames) = 2

\* C8: after flush has returned input_buffer is empty, and a frame taken by a
\* feed after a flush holds only samples fed after that flush: no sample of
\* the residue and no padding zero.
C8_FlushLeavesNothing ==
    /\ (Returned /\ afterFlush) => input_buffer = <<>>
    /\ \A k \in 1..Len(frames) :
          (frames[k].op \in FeedOps /\ frames[k].flushFed >= 0) =>
              \A i \in 1..Len(frames[k].data) :
                  frames[k].data[i] > frames[k].flushFed

\* C8's case: a flush found a residue of one sample, and a later feed
\* completed a frame.
C8_Witness ==
    /\ Returned /\ ~needs_resampling
    /\ \E k \in 1..Len(frames) :
          /\ frames[k].op \in FeedOps
          /\ frames[k].flushFed = 1
          /\ Len(frames[k].data) = AUDX_DEFAULT_FRAME_SIZE

\* C9: a flush right after a flush processes only padding (its frames hold no
\* fed sample) and returns empty audio or audio of that padding only.
C9_SecondFlushOnlyPadding ==
    /\ \A k \in 1..Len(frames) : frames[k].second => AllZero(frames[k].data)
    /\ (AtReturn /\ second) =>
           \A outcome \in JniOutcomes :
               AllZero(ResultObject(outcome, output_buffer).audio)

\* C10: with resampling, the engine is given exactly output_frame_samples
\* samples: the first up_n are the upsampler's, and when up_n is less than a
\* frame the rest are zero.
C10_EngineFramePadded ==
    (Live /\ needs_resampling /\ iters > 0) =>
        /\ Len(engine_in) = AUDX_DEFAULT_FRAME_SIZE
        /\ up_n <= AUDX_DEFAULT_FRAME_SIZE
        /\ \A i \in 1..up_n : engine_in[i] = up_raw[i]
        /\ \A i \in (up_n + 1)..AUDX_DEFAULT_FRAME_SIZE : engine_in[i] = 0

\* C10's case: the upsampler fell short on a frame and left samples of the
\* frame before in the tail of upsampled_buffer.
C10_Witness ==
    /\ Live /\ needs_resampling /\ iters > 0
    /\ up_n < AUDX_DEFAULT_FRAME_SIZE
    /\ up_raw[AUDX_DEFAULT_FRAME_SIZE] # 0
    /\ engine_in[1] # 0

\* C11: the VAD probability and speech flag a feed or flush returns are those
\* of the most recently completed engine frame of the session (the last frame
\* wins when a call processes several), and the values the session was
\* created with as long as no frame was completed; a call that completes no
\* frame leaves them as they were.
C11_LastFrameVad ==
    Live =>
        /\ ResultObject("ok", output_buffer).vad =
               IF Len(frames) = 0 THEN 0 ELSE frames[Len(frames)].vad
        /\ ResultObject("ok", output_buffer).speech =
               IF Len(frames) = 0 THEN FALSE ELSE frames[Len(frames)].speech

\* C11's case: a call about to return that processed two frames with
\* different probabilities.
C11_Witness ==
    /\ Live /\ AtReturn /\ iters >= 2
    /\ frames[Len(frames)].vad # frames[Len(frames) - 1].vad

\* C12: after a failed creation no resource that createNative acquired is
\* still live: the engine, the Denoiser, both resamplers, the context, the
\* cache and its references are all released.
C12_FailedCreateReleasesAll ==
    created = "failed" => \A r \in Resources : heap[r] # "live"

\* C13: every failed creation returns 0, so that the null check of the later
\* calls rejects its handle and no call dereferences it; this for createNative
\* and for denoiseCreateJNI.
C13_FailedCreateReturnsZero ==
    /\ created = "failed" => handle = 0
    /\ audx_st = "failed" => (audx_ptr = 0 /\ ~audx_bad)

\* C14: an entry point given a null handle or the handle of the destroyed
\* session returns a failure value without reading or changing the session:
\* no call reads released memory and none crashes.
C14_InvalidHandleSafe ==
    /\ ~uaf
    /\ pc # "crashed"

\* C16: once a created session is destroyed every resource it acquired is
\* released, no resource is ever released twice, and no call uses a released
\* resource.
C16_ReleasedOnce ==
    /\ created = "destroyed" =>
           \A r \in Resources : heap[r] \in {"none", "freed"}
    /\ \A r \in Resources : heap[r] # "twice"
    /\ ~uaf

\* C17: a feed with a zero-length chunk, through the array or the direct
\* buffer, is a no-op: from its entry to its return no step of it returns
\* audio, processes a frame, or changes input_buffer, the last VAD values or
\* the statistics.
C17_ZeroLengthNoOp ==
    [][((chunk' = 0 /\ calls' = calls + 1) \/ (chunk = 0 /\ pc = "drain")) =>
           /\ delivered' = delivered
           /\ iters' = iters
           /\ frames' = frames
           /\ input_buffer' = input_buffer
           /\ <<last_vad_prob, is_speech, stats>>' =
                  <<last_vad_prob, is_speech, stats>>]_vars

C20_FrameCountPerFrame ==
    [][(created = "live" /\ created' = "live") =>
          /\ iters' = iters + 1 =>
                 stats'.frames_processed = stats.frames_processed + 1
          /\ stats'.frames_processed > stats.frames_processed =>
                 iters' = iters + 1
          /\ stats'.frames_processed < stats.frames_processed =>
                 (pc = "idle" /\ stats' = CleanStats(stats))]_vars

\* C20's case: a call that has removed two frames, after a reset that came
\* after an earlier frame.
C20_Witness ==
    /\ Live /\ AtReturn /\ iters = 2
    /\ Len(frames) = 3 /\ stats.frames_processed = 2

\* Every sample of s is one session sid was fed, or silence.
OwnSamples(s, sid) ==
    \A i \in 1..Len(s) : IF sid = 1 THEN s[i] >= 0 ELSE s[i] <= 0

\* Session c (sid) is as its own calls alone make it: its buffers and frames
\* hold its own samples only, its frame size is the one of its own rate, its
\* input buffer holds what it was fed less the frames taken from it, its last
\* VAD values are its own last frame's, and its statistics count its own
\* frames since its own last reset.
SessionOwn(c, sid) ==
    c.created = "live" =>
        /\ OwnSamples(c.input_buffer, sid)
        /\ OwnSamples(c.output_buffer, sid)
        /\ \A k \in 1..Len(c.frames) : OwnSamples(c.frames[k].data, sid)
        /\ c.input_frame_samples = InputFrameSamples(c.input_rate)
        /\ c.flushFed = -1 =>
               Len(c.input_buffer) =
                   c.fed - Len(c.frames) * c.input_frame_samples
        /\ c.last_vad_prob =
               IF Len(c.frames) = 0 THEN 0 ELSE c.frames[Len(c.frames)].vad
        /\ c.stats.frames_processed = Len(c.frames) - c.reset_at
        /\ c.pc = "idle" => Len(c.output_buffer) = 0

\* C18: with two live sessions and their calls interleaved, each session is
\* as its own calls alone make it: no call on one changes the other's input
\* buffer, output buffer, last VAD values, frame size or statistics.
C18_SessionsIndependent ==
    /\ SessionOwn(Context, current)
    /\ SessionOwn(other, 3 - current)

\* C18's case: two live sessions of different rates, each of which has
\* processed a frame of its own samples, the current one while the other
\* held buffered input.
C18_Witness ==
    /\ created = "live" /\ other.created = "live"
    /\ input_rate # other.input_rate
    /\ Len(frames) >= 1 /\ ~AllZero(frames[1].data)
    /\ Len(other.frames) >= 1 /\ ~AllZero(other.frames[1].data)

\* C15: a call in which a collaborator failed on a frame returns an error
\* and no audio.
C15_FrameFailureAborts ==
    (Live /\ AtReturn /\ frame_error) =>
        \A outcome \in JniOutcomes : ResultObject(outcome, output_buffer).null

\* C21: a flush called while input_buffer holds r samples, 0 <= r <
\* input_frame_samples, processes exactly one frame, the residue in fed order
\* followed by input_frame_samples - r zeros, and the r zeros left over are
\* discarded; every flush runs the engine exactly once.
C21_FlushOneFrame ==
    /\ (Live /\ pc = "drain" /\ op = "flush") =>
           /\ iters <= 1
           /\ AtReturn => iters = 1
           /\ (AtReturn /\ residue < input_frame_samples) =>
                  /\ Len(frames) >= 1
                  /\ frames[Len(frames)].data =
                         Samples(current, flushFed - residue, residue)
                             \o Zeros(input_frame_samples - residue)
                  /\ input_buffer = Zeros(residue)
    /\ (Returned /\ afterFlush) => input_buffer = <<>>

\* The samples of the frames fs, in the order the drain loop took them.
RECURSIVE FrameSamples(_)
FrameSamples(fs) ==
    IF fs = <<>> THEN <<>>
    ELSE FrameSamples(SubSeq(fs, 1, Len(fs) - 1)) \o fs[Len(fs)].data

\* C22: sample conservation: on a session never flushed, the samples fed
\* are input_frame_samples times the frames processed plus the samples in
\* input_buffer, and the frames in order followed by input_buffer are the
\* samples fed, each once: none dropped, none in two frames.
C22_SamplesConserved ==
    (Live /\ flushFed = -1) =>
        /\ fed = input_frame_samples * Len(frames) + Len(input_buffer)
        /\ FrameSamples(frames) \o input_buffer = Samples(current, 0, fed)

\* C22's case: a resampling session that two or more feeds have brought to
\* two frames processed and a remainder still buffered.
C22_Witness ==
    /\ Live /\ pc = "idle" /\ flushFed = -1 /\ needs_resampling
    /\ calls >= 2 /\ Len(frames) >= 2 /\ Len(input_buffer) >= 1
    /\ input_frame_samples >= 1

\* C23: with resampling, every iteration of the drain loop takes exactly
\* input_frame_samples samples out of input_buffer, whatever count the
\* upsampler reports as consumed: the frame is the head of the buffer and the
\* buffer is left with what followed the frame, so that a sample the
\* upsampler did not consume is in no later frame.
C23_FrameRemovedWhole ==
    [][(needs_resampling /\ iters' = iters + 1) =>
           /\ Len(in_len') = Len(in_len) + 1
           /\ frames'[Len(frames')].data =
                  SubSeq(input_buffer, 1, input_frame_samples)
           /\ input_buffer' =
                  SubSeq(input_buffer, input_frame_samples + 1,
                         Len(input_buffer))]_vars

\* C23's case: the upsampler left a sample of the first frame of a call
\* unconsumed, and the next frame of the call starts after that sample.
C23_Witness ==
    /\ Live /\ pc = "drain" /\ needs_resampling /\ iters >= 2
    /\ in_len[1] < input_frame_samples
    /\ frames[Len(frames)].data[1] =
           frames[Len(frames) - 1].data[input_frame_samples] + 1

\* The samples a direct buffer holds between position and limit, as a count.
WindowSamples(window) ==
    IF window[2] > window[1] THEN (window[2] - window[1]) \div 2 ELSE 0

\* C24: the two feed entry points are equivalent: a direct-buffer feed of the
\* samples between position and limit leaves input_buffer as the array feed
\* of those samples leaves it (from there on both run the same drain loop
\* and build the same result); where it returns at once, the array feed
\* would have processed no frame either; and when it has returned, the
\* buffer's position is its limit.
C24_FeedsEquivalent ==
    [][/\ (calls' = calls + 1 /\ byteBuffer' # <<>>) =>
              /\ input_buffer' =
                     input_buffer
                         \o Samples(current, fed, WindowSamples(byteBuffer'))
              /\ fed' = fed + WindowSamples(byteBuffer')
              /\ pc' = "idle" =>
                     /\ ~DrainCondition(input_buffer, input_frame_samples)
                     /\ byteBuffer'[1] = byteBuffer'[2]
       /\ (op = "feedbb" /\ pc' = "idle") =>
              byteBuffer'[1] = byteBuffer[2]]_vars

====
